---- MODULE Spec2Model ----
(***************************************************************************)
(* A model of dymos' ODEIntegrationComp                                    *)
(* (dymos/transcriptions/explicit_shooting/ode_integration_comp.py):       *)
(* the result cache (compute / compute_partials), the segment propagator   *)
(* (_propagate) and the layout manager (_configure_* / _build_dx_dz_idxs). *)
(*                                                                         *)
(* Numeric vectors are abstracted to tokens that record where a value      *)
(* came from (which inputs, which segment, which node of the solver's      *)
(* answer), so that "which propagation filled this row" is a fact of the   *)
(* state.  The IVP solver (scipy's solve_ivp) and the inputs' get_hash     *)
(* are collaborators outside the repository; they are modelled by their    *)
(* documented behaviour, with every outcome the solver can produce.        *)
(***************************************************************************)
EXTENDS Integers, Sequences, FiniteSets, TLC

(* ------------------------------ bounds --------------------------------- *)
\* largest value of an element of the inputs vector
MaxVal == 1
\* largest number of segments of the output grid
MaxSegs == 2
\* largest number of states in the catalog
MaxStates == 2
\* largest number of parameters, of controls and of polynomial controls
MaxEntries == 1
\* how many times setup() runs to its end on one instance
MaxSetups == 2

VARIABLES
    propagate_derivs,   \* options['propagate_derivs']
    is_aligned,         \* input_grid_data.is_aligned_with(output_grid_data)
    nnps,               \* ogd.subset_num_nodes_per_segment['all']
    is_setup,           \* setup() has completed at least once
    eval_subprob,       \* self._eval_subprob: None, or the sub-problem setup() built
    setup_raised,       \* the last setup() raised the alignment RuntimeError
    inputs_cache,       \* self._inputs_cache
    x_out,              \* self._x_out
    t_out,              \* self._t_out
    dx_dz_out,          \* self._dx_dz_out
    dt_dz_out,          \* self._dt_dz_out
    segment_index,      \* the evaluator sub-problem's active segment index
    pc,                 \* position of the one thread of control
    frame,              \* locals of the running compute/compute_partials/_propagate
    last,               \* the call that ended last, and what it returned
    solve_log,          \* segments handed to solve_ivp by the running/last _propagate
    t_spans,            \* t_span_seg of each of them
    x_flow,             \* per row of x_out: which solution of the ODE the row's value is
    rhs,                \* the last evaluation of a dynamics function
    failed_at,          \* segment whose solve failed in the running/last _propagate
    failed_rows,        \* rows whose content was written by a _propagate that raised
    good_inputs,        \* the inputs of the last _propagate that returned
    catalog,            \* state/parameter/control/polynomial control options
    layout,             \* the sizes and index maps the _configure_* methods set
    cfg_pc,             \* how far setup() has come
    aug,                \* the last result of _f_augmented, None before
    y0_aug,             \* the last augmented y0 that _propagate built, None before
    partials            \* the keys the last compute_partials wrote, None before

vars == << propagate_derivs, is_aligned, nnps, is_setup, eval_subprob, setup_raised, inputs_cache, x_out, t_out,
           dx_dz_out, dt_dz_out, x_flow, segment_index, pc, frame, last, solve_log, t_spans,
           rhs, failed_at, failed_rows, good_inputs, catalog, layout, cfg_pc, aug, y0_aug,
           partials >>

layout_vars == << catalog, layout, cfg_pc, aug, y0_aug, partials >>
config_vars == << propagate_derivs, is_aligned, nnps >>
buffer_vars == << x_out, t_out, dx_dz_out, dt_dz_out, x_flow >>
setup_vars == << is_setup, eval_subprob, setup_raised >>
engine_vars == << propagate_derivs, is_aligned, nnps, is_setup, eval_subprob, setup_raised, inputs_cache, x_out, t_out,
                  dx_dz_out, dt_dz_out, x_flow, segment_index, pc, frame, last, solve_log, t_spans,
                  rhs, failed_at, failed_rows, good_inputs >>

(* ------------------------------ values --------------------------------- *)
\* The inputs vector: the initial state value and t_duration.
\* A zero duration is drawn once: everything it decides is independent of x0.
Inputs == { inputs \in [x0 : 0..MaxVal, t_duration : 0..1] :
                inputs.t_duration = 0 => inputs.x0 = 0 }

NoInputs == [x0 |-> -1, t_duration |-> -1]

\* Python's None, for a buffer that was not allocated.
None == << >>

\* self._inputs_cache = '' after construction.
EmptyCache == 0

\* inputs.get_hash(): a digest of the bytes of the inputs vector, never the
\* empty string; distinct vectors have distinct digests.
get_hash(inputs) == 1 + inputs.x0 + (MaxVal + 1) * inputs.t_duration

\* A value in a buffer or in the solver's state vector, by origin.
Tok(src, inputs, seg, node) == [src |-> src, inputs |-> inputs, seg |-> seg, node |-> node]

\* np.zeros
Zero == Tok("zeros", NoInputs, -1, -1)

Absent == Tok("absent", NoInputs, -1, -1)

\* The value the solver returns for output node `node` of segment `seg`.
SolPoint(inputs, derivs, seg, node) ==
    [x     |-> Tok("sol", inputs, seg, node),
     dx_dz |-> IF derivs THEN Tok("sol", inputs, seg, node) ELSE Absent,
     dt_dz |-> IF derivs THEN Tok("sol", inputs, seg, node) ELSE Absent]

Zeros(n) == [r \in 1..n |-> Zero]

RECURSIVE SumSeq(_)
SumSeq(s) == IF s = << >> THEN 0 ELSE Head(s) + SumSeq(Tail(s))

\* nn = sum(self._nnps)
nn == SumSeq(nnps)

RECURSIVE SeqsUpTo(_, _)
SeqsUpTo(S, n) ==
    IF n = 0 THEN { << >> }
    ELSE LET shorter == SeqsUpTo(S, n - 1)
         IN  shorter \cup { Append(s, e) : s \in { t \in shorter : Len(t) = n - 1 }, e \in S }

\* Output nodes of a segment: a single node, or several (with three, the
\* solver can stop short at no point, at one point and at more than one).
NodeCounts == {1, 3}

NnpsChoices == SeqsUpTo(NodeCounts, MaxSegs) \ { << >> }

\* rows, flows: what the call returned, kept until the next _propagate starts.
\* pair: the call before was a compute of the same inputs that returned
\* normally ("hit" without, "miss" with a propagation).  changed: the inputs
\* differed from those of the last propagation that returned.
NoCall == [op |-> "none", inputs |-> NoInputs, status |-> "none", propagated |-> FALSE,
           rows |-> None, flows |-> None, pair |-> "none", changed |-> FALSE]

NoFrame == [op |-> "none", inputs |-> NoInputs, derivs |-> FALSE, i |-> 0,
            row_seg_i |-> 0, y0 |-> [x |-> Absent, dx_dz |-> Absent, dt_dz |-> Absent],
            sol_end |-> [x |-> Absent, dx_dz |-> Absent, dt_dz |-> Absent],
            y0_flow |-> [inputs |-> NoInputs, from |-> -1, to |-> -1],
            writes |-> << >>]

NoRhs == [fn |-> "none", t_duration |-> -1, x_ndim |-> 0, seg |-> -1, segment_index |-> -1,
          first |-> FALSE]

(* ------------------------------ layout -------------------------------- *)
\* The catalog: per state, parameter and control the number of elements of
\* its shape; per polynomial control its order and that number; and the
\* number of control input nodes of the input grid.
Sizes == 1..2
Orders == 0..1

PolyOptions == [order : Orders, size : Sizes]

Catalogs ==
    [states         : SeqsUpTo(Sizes, MaxStates) \ { << >> },
     params         : SeqsUpTo(Sizes, MaxEntries),
     controls       : SeqsUpTo(Sizes, MaxEntries),
     polys          : SeqsUpTo(PolyOptions, MaxEntries),
     n_control_nodes : Sizes]

DefaultCatalog ==
    [states |-> << 1 >>, params |-> << >>, controls |-> << >>, polys |-> << >>,
     n_control_nodes |-> 1]

\* np.s_[start:start + size]
SliceOf(start, size) == [start |-> start, stop |-> start + size]

Range(slice) == slice.start..(slice.stop - 1)

\* The loops "idxs[name] = np.s_[start:start + size]; start += size".
RECURSIVE Slices(_, _)
Slices(sizes, start) ==
    IF sizes = << >> THEN << >>
    ELSE << SliceOf(start, Head(sizes)) >> \o Slices(Tail(sizes), start + Head(sizes))

\* state_size = np.prod(options['shape'])
StateSizes(cat) == cat.states

\* param_size = np.prod(options['shape'])
ParamSizes(cat) == cat.params

\* control_param_size = np.prod((num_control_input_nodes,) + options['shape'])
ControlSizes(cat) == [k \in DOMAIN cat.controls |-> cat.n_control_nodes * cat.controls[k]]

\* control_param_size = np.prod((options['order'] + 1,) + options['shape'])
PolySizes(cat) == [k \in DOMAIN cat.polys |-> (cat.polys[k].order + 1) * cat.polys[k].size]

\* The sizes and maps as __init__ leaves them.
Unconfigured ==
    [x_size |-> 0, p_size |-> 0, u_size |-> 0, up_size |-> 0, theta_size |-> 0, z_size |-> 0,
     state_idxs |-> << >>, state_idxs_in_z |-> << >>,
     parameter_idxs |-> << >>, parameter_idxs_in_theta |-> << >>, parameter_idxs_in_z |-> << >>,
     control_idxs_in_theta |-> << >>, control_idxs_in_z |-> << >>,
     polynomial_control_idxs_in_theta |-> << >>, polynomial_control_idxs_in_z |-> << >>,
     partial_dx_dz_idxs |-> << >>, declared |-> {},
     state_rate_of_names |-> << >>, totals_of_names |-> << >>, totals_wrt_names |-> << >>]

\* The name of an output or an input of the component.
Name(kind, k) == [kind |-> kind, k |-> k]

\* declare_partials(of, wrt) and declare_partials(of, wrt, val=1.0)
Declared(of, wrt, val) == [of |-> of, wrt |-> wrt, val |-> val]

\* The inputs of the component other than t_initial and t_duration.
QuantityInputs(cat) ==
    { Name("states", k) : k \in DOMAIN cat.states }
    \cup { Name("parameters", k) : k \in DOMAIN cat.params }
    \cup { Name("controls", k) : k \in DOMAIN cat.controls }
    \cup { Name("polynomial_controls", k) : k \in DOMAIN cat.polys }

\* The partial of the phase time is not declared.
TimePartials_NoPhase ==
    { Declared(Name("t_final", 0), Name(wrt, 0), "const") : wrt \in {"t_initial", "t_duration"} }
    \cup { Declared(Name("time", 0), Name(wrt, 0), "const") : wrt \in {"t_initial", "t_duration"} }

\* The three declare_partials of _configure_time, each with val=1.0.
TimePartials ==
    { Declared(Name("t_final", 0), Name(wrt, 0), "const") : wrt \in {"t_initial", "t_duration"} }
    \cup { Declared(Name("time", 0), Name(wrt, 0), "const") : wrt \in {"t_initial", "t_duration"} }
    \cup { Declared(Name("time_phase", 0), Name("t_duration", 0), "const") }

\* The declare_partials of _configure_states, none with a value.
StatePartials(cat) ==
    { Declared(Name("states_out", k), wrt, "none") :
        k \in DOMAIN cat.states,
        wrt \in { Name("t_initial", 0), Name("t_duration", 0) } \cup QuantityInputs(cat) }

\* f'{kind}:{name}' for each entry of an options dictionary, in its order.
NamesOf(kind, options) == [k \in DOMAIN options |-> Name(kind, k)]

\* setup(): self._totals_of_names = []; self._totals_wrt_names = []
SetupHead(lay) == [lay EXCEPT !.totals_of_names = << >>, !.totals_wrt_names = << >>]

ConfigureTime(cat, lay) ==
    [lay EXCEPT !.declared = TimePartials,
                !.totals_of_names = Append(@, Name("time", 0)),
                !.totals_wrt_names = @ \o << Name("time", 0), Name("t_initial", 0),
                                             Name("t_duration", 0) >>]

\* The keys compute_partials assigns (lines 860-883).
PartialsWritten(cat) ==
    { [of |-> Name("time", 0), wrt |-> Name("t_duration", 0)],
      [of |-> Name("time_phase", 0), wrt |-> Name("t_duration", 0)] }
    \cup { [of |-> Name("states_out", k), wrt |-> wrt] :
             k \in DOMAIN cat.states,
             wrt \in { Name("states", j) : j \in DOMAIN cat.states }
                      \cup { Name("t_initial", 0), Name("t_duration", 0) }
                      \cup { Name("parameters", j) : j \in DOMAIN cat.params }
                      \cup { Name("controls", j) : j \in DOMAIN cat.controls }
                      \cup { Name("polynomial_controls", j) : j \in DOMAIN cat.polys } }

ConfigureParameters(cat, lay) ==
    [lay EXCEPT !.p_size = SumSeq(ParamSizes(cat)),
                !.parameter_idxs = Slices(ParamSizes(cat), 0),
                !.parameter_idxs_in_theta = << >>,
                !.parameter_idxs_in_z = << >>,
                !.totals_wrt_names = @ \o NamesOf("parameters", cat.params)]

ConfigureControls(cat, lay) ==
    [lay EXCEPT !.u_size = SumSeq(ControlSizes(cat)),
                !.control_idxs_in_theta = << >>,
                !.control_idxs_in_z = << >>,
                !.totals_wrt_names = @ \o NamesOf("controls", cat.controls)]

ConfigurePolynomialControls(cat, lay) ==
    [lay EXCEPT !.up_size = SumSeq(PolySizes(cat)),
                !.polynomial_control_idxs_in_theta = << >>,
                !.polynomial_control_idxs_in_z = << >>,
                !.totals_wrt_names = @ \o NamesOf("polynomial_controls", cat.polys)]

ConfigureStates(cat, lay) ==
    [lay EXCEPT !.x_size = SumSeq(StateSizes(cat)),
                !.state_idxs = Slices(StateSizes(cat), 0),
                !.state_idxs_in_z = << >>,
                !.declared = @ \cup StatePartials(cat),
                !.state_rate_of_names = @ \o NamesOf("state_rates", cat.states),
                !.totals_wrt_names = @ \o NamesOf("states", cat.states)]

\* The ODE parameter vector lacks t_duration.
ThetaSize_NoDuration(p_size, u_size, up_size) == 1 + p_size + u_size + up_size

\* self.theta_size = 2 + self.p_size + self.u_size + self.up_size
ThetaSize(p_size, u_size, up_size) == 2 + p_size + u_size + up_size

\* The inputs in the order the loops of _build_dx_dz_idxs visit them, each with
\* its input_size (t_initial and t_duration get one column each).
WrtList(cat) ==
    [k \in DOMAIN cat.states |-> [kind |-> "state", k |-> k, size |-> cat.states[k]]]
    \o << [kind |-> "t_initial", k |-> 0, size |-> 1],
          [kind |-> "t_duration", k |-> 0, size |-> 1] >>
    \o [k \in DOMAIN cat.params |-> [kind |-> "param", k |-> k, size |-> cat.params[k]]]
    \o [k \in DOMAIN cat.controls |->
          [kind |-> "control", k |-> k, size |-> cat.controls[k] * cat.n_control_nodes]]
    \o [k \in DOMAIN cat.polys |->
          [kind |-> "poly", k |-> k, size |-> cat.polys[k].size * (cat.polys[k].order + 1)]]

\* The columns one (output, input) pair is given: output_state_size * input_size,
\* and a single column for t_initial and for t_duration.
EntryWidth(output_state_size, wrt) ==
    IF wrt.kind \in {"t_initial", "t_duration"} THEN 1 ELSE output_state_size * wrt.size

\* The inner loops of _build_dx_dz_idxs for one output state.
RECURSIVE EntriesOfOutput(_, _, _, _)
EntriesOfOutput(of, output_state_size, wrts, dx_dz_idx) ==
    IF wrts = << >> THEN << >>
    ELSE LET w == EntryWidth(output_state_size, Head(wrts))
         IN  << [of |-> of, wrt |-> Head(wrts), cols |-> SliceOf(dx_dz_idx, w)] >>
             \o EntriesOfOutput(of, output_state_size, Tail(wrts), dx_dz_idx + w)

SumWidths(output_state_size, wrts) ==
    SumSeq([k \in DOMAIN wrts |-> EntryWidth(output_state_size, wrts[k])])

\* _build_dx_dz_idxs: the outer loop over the output states, from state `of` on.
RECURSIVE BuildDxDzIdxs(_, _, _)
BuildDxDzIdxs(cat, of, dx_dz_idx) ==
    IF of > Len(cat.states) THEN << >>
    ELSE EntriesOfOutput(of, cat.states[of], WrtList(cat), dx_dz_idx)
         \o BuildDxDzIdxs(cat, of + 1, dx_dz_idx + SumWidths(cat.states[of], WrtList(cat)))

\* The value of the running start after a loop over `slices`.
EndOf(slices, start) == IF slices = << >> THEN start ELSE slices[Len(slices)].stop

\* _configure_storage: start_z and start_theta run on from loop to loop.
ConfigureStorage(cat, lay) ==
    LET theta_size == ThetaSize(lay.p_size, lay.u_size, lay.up_size)
        start_z    == lay.x_size + 2
        start_theta == 2
        p_in_z     == Slices(ParamSizes(cat), start_z)
        p_in_theta == Slices(ParamSizes(cat), start_theta)
        u_in_z     == Slices(ControlSizes(cat), EndOf(p_in_z, start_z))
        u_in_theta == Slices(ControlSizes(cat), EndOf(p_in_theta, start_theta))
        up_in_z    == Slices(PolySizes(cat), EndOf(u_in_z, EndOf(p_in_z, start_z)))
        up_in_theta == Slices(PolySizes(cat),
                              EndOf(u_in_theta, EndOf(p_in_theta, start_theta)))
    IN  [lay EXCEPT
            !.theta_size = theta_size,
            !.z_size = lay.x_size + theta_size,
            !.state_idxs_in_z = Slices(StateSizes(cat), 0),
            !.parameter_idxs_in_z = p_in_z,
            !.parameter_idxs_in_theta = p_in_theta,
            !.control_idxs_in_z = u_in_z,
            !.control_idxs_in_theta = u_in_theta,
            !.polynomial_control_idxs_in_z = up_in_z,
            !.polynomial_control_idxs_in_theta = up_in_theta,
            !.partial_dx_dz_idxs = BuildDxDzIdxs(cat, 1, 0)]

\* setup() in standalone mode, lines 454-463.
ConfigureAll(cat, lay) ==
    ConfigureStorage(cat,
        ConfigureStates(cat,
            ConfigurePolynomialControls(cat,
                ConfigureControls(cat,
                    ConfigureParameters(cat, ConfigureTime(cat, SetupHead(lay)))))))

\* How many times _configure_states has run: it appends one name per state.
SetupRuns(cat, lay) == Len(lay.state_rate_of_names) \div Len(cat.states)

\* theta[0] = t_initial, theta[1] = t_duration
TInitialInTheta == SliceOf(0, 1)
TDurationInTheta == SliceOf(1, 1)

\* _dt_dz_0[0, x_size] = 1 and dt_dz[:, x_size + 1]
TInitialInZ(lay) == SliceOf(lay.x_size, 1)
TDurationInZ(lay) == SliceOf(lay.x_size + 1, 1)

(* ----------------------- augmented dynamics --------------------------- *)
\* An entry of a matrix eval_ode returns, or of the flat vector y.
Sym(m, r, c) == [m |-> m, r |-> r, c |-> c]

YAt(p) == Sym("y", p, 0)

\* 1./td
OneOver(td) == Sym("1/td", td, 0)

Prod(a, b) == [a |-> a, b |-> b]

\* A symbol times an entry of a 0/1 matrix, as the terms it adds to a sum.
Scale(a, num) == IF num = 0 THEN {} ELSE {a}

\* self._dtheta_dz = zeros((theta_size, z_size)); [:, -theta_size:] = eye(theta_size)
DthetaDz(lay) ==
    [k \in 0..(lay.theta_size - 1) |->
        [c \in 0..(lay.z_size - 1) |->
            IF c >= lay.z_size - lay.theta_size /\ c - (lay.z_size - lay.theta_size) = k
            THEN 1 ELSE 0]]

\* len(y0) = x_size + x_size * z_size + z_size
AugmentedSize(lay) == lay.x_size + lay.x_size * lay.z_size + lay.z_size

\* The forcing term is put in the column of t_initial.
DhDzColumn_TInitial(n_x) == n_x

\* dh_dz[0, n_x+1]
DhDzColumn(n_x) == n_x + 1

\* _f_augmented(t, y, theta, dtheta_dz) for y of length ny and theta[1] = td:
\* y_dot, each entry as the set of the terms of its sum.
FAugmented(lay, ny, td, dtheta_dz) ==
    LET n_x     == lay.x_size
        n_theta == lay.theta_size
        n_z     == n_x + n_theta
        dx_dz(k, c) == YAt(n_x + k * n_z + c)
        dt_dz(c)    == YAt(ny - n_z + c)
        dh_dz(c)    == IF c = DhDzColumn(n_x) THEN {OneOver(td)} ELSE {}
        dx_dz_dot(r, c) ==
            { Prod(Sym("f_x", r, k), dx_dz(k, c)) : k \in 0..(n_x - 1) }
            \cup { Prod(Sym("f_t", r, 0), dt_dz(c)) }
            \cup UNION { Scale(Sym("f_theta", r, k), dtheta_dz[k][c]) : k \in 0..(n_theta - 1) }
            \cup { Prod(Sym("x_dot", r, 0), h) : h \in dh_dz(c) }
    IN  [r \in 1..n_x |-> { Sym("x_dot", r - 1, 0) }]
        \o [q \in 1..(n_x * n_z) |-> dx_dz_dot((q - 1) \div n_z, (q - 1) % n_z)]
        \o [c \in 1..n_z |-> dh_dz(c - 1)]

\* x0[self.state_idxs[state_name]] = inputs['states:' + state_name]
X0(cat, lay) ==
    [r \in 1..lay.x_size |->
        LET k == CHOOSE k \in DOMAIN lay.state_idxs : (r - 1) \in Range(lay.state_idxs[k])
        IN  Sym("states", k, r - 1 - lay.state_idxs[k].start)]

\* self._dx_dz_0 = zeros((x_size, z_size)); [:, :x_size] = eye(x_size)
DxDz0(lay) ==
    [r \in 0..(lay.x_size - 1) |->
        [c \in 0..(lay.z_size - 1) |-> IF c < lay.x_size /\ c = r THEN 1 ELSE 0]]

\* The one is put in the column of t_duration.
DtDz0_AtDuration(lay) == [c \in 0..(lay.z_size - 1) |-> IF c = lay.x_size + 1 THEN 1 ELSE 0]

\* self._dt_dz_0 = zeros((1, z_size)); [0, x_size] = 1.
DtDz0(lay) == [c \in 0..(lay.z_size - 1) |-> IF c = lay.x_size THEN 1 ELSE 0]

\* m.ravel() of a matrix of n rows and w columns
Ravel(m, n, w) == [q \in 1..(n * w) |-> m[(q - 1) \div w][(q - 1) % w]]

\* y0 = np.concatenate((x0.ravel(), self._dx_dz_0.ravel(), self._dt_dz_0.ravel()))
AugmentedY0(cat, lay) ==
    X0(cat, lay)
    \o Ravel(DxDz0(lay), lay.x_size, lay.z_size)
    \o [c \in 1..lay.z_size |-> DtDz0(lay)[c - 1]]

(* ------------------------------- Init ---------------------------------- *)
\* The state after __init__: nothing allocated, the cache marker empty.
Init ==
    /\ propagate_derivs \in BOOLEAN
    /\ is_aligned \in BOOLEAN
    /\ nnps \in NnpsChoices
    /\ is_setup = FALSE
    /\ eval_subprob = "None"
    /\ setup_raised = FALSE
    /\ inputs_cache = EmptyCache
    /\ x_out = None
    /\ t_out = None
    /\ dx_dz_out = None
    /\ dt_dz_out = None
    /\ x_flow = None
    /\ segment_index = -1
    /\ pc = "idle"
    /\ frame = NoFrame
    /\ last = NoCall
    /\ solve_log = << >>
    /\ t_spans = << >>
    /\ rhs = NoRhs
    /\ failed_at = -1
    /\ failed_rows = {}
    /\ good_inputs = NoInputs
    /\ catalog = DefaultCatalog
    /\ layout = Unconfigured
    /\ cfg_pc = "new"
    /\ aug = None
    /\ y0_aug = None
    /\ partials = None

(* ------------------------- collaborators ------------------------------- *)
\* y0 of _propagate: x0, and with sensitivities the initial dx/dz and dt/dz.
Y0(inputs, derivs) ==
    [x     |-> Tok("x0", inputs, -1, -1),
     dx_dz |-> IF derivs THEN Tok("dx_dz_0", inputs, -1, -1) ELSE Absent,
     dt_dz |-> IF derivs THEN Tok("dt_dz_0", inputs, -1, -1) ELSE Absent]

\* t_span_seg = (t_eval_seg[0], t_eval_seg[-1]) has zero length when the
\* duration is zero or the segment has a single output node.
SpanDegenerate(t_duration, n) == t_duration = 0 \/ n = 1

\* What solve_ivp can answer for a segment of n output nodes: every requested
\* point (success), an exception, or a failure status with the k < n points
\* it reached.  Over a zero-length span it finishes at once.
SolverOutcomes(n, degenerate) ==
    IF degenerate
    THEN { [status |-> "success", npts |-> n] }
    ELSE { [status |-> "success", npts |-> n], [status |-> "raised", npts |-> 0] }
         \cup { [status |-> "failed", npts |-> k] : k \in 0..(n - 1) }

\* sol.y.T: over a zero-length span every point is y0 (constant dense output).
SolPoints(inputs, derivs, seg, k, degenerate, y0) ==
    [j \in 1..k |-> IF degenerate THEN y0 ELSE SolPoint(inputs, derivs, seg, j - 1)]

\* ogd.node_ptau of a segment, as places on a lattice of two steps to the
\* segment: a single node at the segment's start, three nodes at its start,
\* middle and end.
NodePositions(n) == IF n = 1 THEN << 0 >> ELSE << 0, 1, 2 >>

\* t_eval_seg = t_initial + 0.5 * (eval_nodes_ptau + 1) * t_duration, measured
\* from t_initial in lattice steps of the phase.
TEvalSeg(inputs, i) ==
    [j \in 1..nnps[i + 1] |-> inputs.t_duration * (2 * i + NodePositions(nnps[i + 1])[j])]

\* t_span_seg = (t_eval_seg[0], t_eval_seg[-1])
TSpanSeg(t_eval_seg) == [lo |-> t_eval_seg[1], hi |-> t_eval_seg[Len(t_eval_seg)]]

\* sol.t: the requested times the solver reached.
SolTimes(inputs, seg, k) == [j \in 1..k |-> Tok("t", inputs, seg, j - 1)]

\* The solution of the initial value problem of `inputs` that starts at time
\* `from` with the inputs' initial state, taken at time `to`.
Flow(inputs, from, to) == [inputs |-> inputs, from |-> from, to |-> to]

\* A value that is on no solution through the initial state.
Broken(inputs) == Flow(inputs, -1, -1)

\* The solver integrates y0 from `lo` to `t`.  Its solution over [a, c] is
\* its solution over [a, b] followed by [b, c]: a value taken at `lo` from a
\* solution goes on along that solution; a value taken at another time leaves it.
Extend(y0_flow, lo, t) ==
    IF lo = t THEN y0_flow
    ELSE IF y0_flow.to = lo /\ y0_flow.from >= 0 THEN [y0_flow EXCEPT !.to = t]
    ELSE Broken(y0_flow.inputs)

\* What the k points of sol.y are, as solutions of the ODE.
SolFlows(y0_flow, seg, k) ==
    LET t_eval_seg == TEvalSeg(y0_flow.inputs, seg)
    IN  [j \in 1..k |-> Extend(y0_flow, TSpanSeg(t_eval_seg).lo, t_eval_seg[j])]

\* numpy accepts buf[a:a+n, :] = v for v of k rows when k = n or k = 1.
Broadcasts(k, n) == k = n \/ k = 1

\* buf[row_seg_i:row_seg_i+n, :] = vals, for a buffer that is allocated.
WriteRows(buf, row_seg_i, n, vals) ==
    [r \in DOMAIN buf |->
        IF r \in (row_seg_i + 1)..(row_seg_i + n)
        THEN vals[IF Len(vals) = 1 THEN 1 ELSE r - row_seg_i]
        ELSE buf[r]]

Column(pts, field) == [j \in DOMAIN pts |-> pts[j][field]]

\* x[0, self.state_idxs[name]] is defined for a two-dimensional x only.
XRowIndexable(x_ndim) == x_ndim = 2

(* --------------------------- cache decisions --------------------------- *)
\* A comparison that only ever fills an empty cache.
InputsChanged_OnlyWhenEmpty(inputs_hash) ==
    inputs_hash # inputs_cache /\ inputs_cache = EmptyCache

\* if inputs_hash != self._inputs_cache
InputsChanged(inputs_hash) == inputs_hash # inputs_cache

\* The fingerprint is not stored.
CacheAfterPropagate_Forgotten(inputs_hash) == inputs_cache

\* self._inputs_cache = inputs_hash
CacheAfterPropagate(inputs_hash) == inputs_hash

\* The sensitivities restart from their initial values at a boundary.
NextY0_Reinitialised(pts) ==
    [pts[Len(pts)] EXCEPT !.dx_dz = Tok("dx_dz_0", pts[1].x.inputs, -1, -1),
                          !.dt_dz = Tok("dt_dz_0", pts[1].x.inputs, -1, -1)]

\* y0 = sol.y.T[-1, :]
NextY0(pts) == pts[Len(pts)]

\* The evaluator keeps the index it had.
SetSegmentIndex_Stale(idx) == segment_index

\* self._set_segment_index(i): the index the evaluator has from then on
SetSegmentIndex(idx) == idx

\* The start row moves on by one row, not by the segment's node count.
NextRowSegI_ByOne(row_seg_i, n) == row_seg_i + 1

\* row_seg_i += nnps[i]
NextRowSegI(row_seg_i, n) == row_seg_i + n

\* The loop stops at a segment with a single output node.
LoopContinues_SkipsSingleNode(i) == i < Len(nnps) /\ nnps[i + 1] > 1

\* for i in range(ogd.num_segments)
LoopContinues(i) == i < Len(nnps)

\* The alignment of the grids is not looked at.
GridsAligned_Unchecked == TRUE

\* self._input_grid_data.is_aligned_with(self._output_grid_data)
GridsAligned == is_aligned

(* ----------------------------- call ends ------------------------------- *)
EndCall(op, inputs, status, propagated, rows) ==
    /\ last' = [op |-> op, inputs |-> inputs, status |-> status,
                propagated |-> propagated, rows |-> rows,
                flows |-> IF status = "ok" THEN x_flow ELSE None,
                pair |-> IF last.op = "compute" /\ last.status = "ok" /\ last.inputs = inputs
                         THEN (IF last.propagated THEN "miss" ELSE "hit")
                         ELSE "none",
                changed |-> inputs # good_inputs]
    /\ pc' = "idle"
    /\ frame' = NoFrame

\* An exception leaves _propagate and the calling compute/compute_partials:
\* the rows this _propagate wrote so far stay in the buffers.
Raise ==
    /\ EndCall(frame.op, frame.inputs, "raised", TRUE, None)
    /\ failed_rows' = failed_rows \cup (1..frame.row_seg_i)

\* The tail of compute (lines 824-835): outputs are taken from the buffers.
ComputeTail(inputs, propagated) ==
    EndCall("compute", inputs, "ok", propagated, x_out)

\* The tail of compute_partials (lines 855-883): dt_dz[:, ...] on None raises.
ComputePartialsTail(inputs, propagated) ==
    IF dt_dz_out = None
    THEN EndCall("compute_partials", inputs, "TypeError", propagated, None)
    ELSE EndCall("compute_partials", inputs, "ok", propagated, dx_dz_out)

(* ------------------------------ actions -------------------------------- *)
\* setup(): the alignment check, then storage is (re)allocated.  The cache
\* marker is not touched.
Setup ==
    /\ pc = "idle"
    /\ SetupRuns(catalog, layout) < MaxSetups
    /\ IF ~GridsAligned
       THEN /\ setup_raised' = TRUE
            /\ UNCHANGED << is_setup, eval_subprob, buffer_vars, segment_index, failed_rows,
                            layout, cfg_pc >>
       ELSE /\ is_setup' = TRUE
            /\ setup_raised' = FALSE
            /\ eval_subprob' = "built"
            /\ layout' = ConfigureAll(catalog, layout)
            /\ cfg_pc' = "done"
            /\ x_out' = Zeros(nn)
            /\ t_out' = Zeros(nn)
            /\ dx_dz_out' = IF propagate_derivs THEN Zeros(nn) ELSE None
            /\ dt_dz_out' = IF propagate_derivs THEN Zeros(nn) ELSE None
            /\ x_flow' = [r \in 1..nn |-> Broken(NoInputs)]
            /\ segment_index' = -1
            /\ failed_rows' = {}
    /\ UNCHANGED << config_vars, inputs_cache, pc, frame, last, solve_log, t_spans, rhs,
                    failed_at, good_inputs, catalog, aug, y0_aug, partials >>

\* The head of _propagate (lines 718-776).
StartPropagate(op, inputs, derivs) ==
    /\ frame' = [op |-> op, inputs |-> inputs, derivs |-> derivs, i |-> 0,
                 row_seg_i |-> 0, y0 |-> Y0(inputs, derivs),
                 sol_end |-> NoFrame.sol_end, y0_flow |-> Flow(inputs, 0, 0),
                 writes |-> [r \in 1..nn |-> << >>]]
    /\ pc' = "loop"
    /\ last' = [last EXCEPT !.rows = None, !.flows = None]
    /\ UNCHANGED failed_rows

Compute(inputs) ==
    /\ pc = "idle"
    /\ is_setup
    /\ IF InputsChanged(get_hash(inputs))
       THEN StartPropagate("compute", inputs, propagate_derivs)
       ELSE /\ ComputeTail(inputs, FALSE)
            /\ UNCHANGED failed_rows
    /\ solve_log' = << >>
    /\ t_spans' = << >>
    /\ rhs' = NoRhs
    /\ failed_at' = -1
    /\ UNCHANGED << layout_vars, config_vars, setup_vars, inputs_cache, buffer_vars, segment_index,
                    good_inputs >>

ComputePartials(inputs) ==
    /\ pc = "idle"
    /\ is_setup
    /\ IF InputsChanged(get_hash(inputs))
       THEN StartPropagate("compute_partials", inputs, TRUE)
       ELSE /\ ComputePartialsTail(inputs, FALSE)
            /\ UNCHANGED failed_rows
    /\ solve_log' = << >>
    /\ t_spans' = << >>
    /\ rhs' = NoRhs
    /\ failed_at' = -1
    /\ UNCHANGED << layout_vars, config_vars, setup_vars, inputs_cache, buffer_vars, segment_index,
                    good_inputs >>

\* One pass of the loop up to the solver's first evaluation of the dynamics
\* function (lines 778-795): the segment index is set, solve_ivp is called and
\* evaluates fun(t0, y0).  _f_primal hands the solver's flat x to the evaluator.
SegmentBegin ==
    /\ pc = "loop"
    /\ LoopContinues(frame.i)
    /\ segment_index' = SetSegmentIndex(frame.i)
    /\ solve_log' = Append(solve_log, frame.i)
    /\ t_spans' = Append(t_spans, TSpanSeg(TEvalSeg(frame.inputs, frame.i)))
    /\ LET ndim == IF frame.derivs THEN 2 ELSE 1
       IN  /\ rhs' = [fn |-> IF frame.derivs THEN "_f_augmented" ELSE "_f_primal",
                      t_duration |-> frame.inputs.t_duration, x_ndim |-> ndim,
                      seg |-> frame.i, segment_index |-> SetSegmentIndex(frame.i),
                      first |-> TRUE]
           /\ IF XRowIndexable(ndim)
              THEN /\ pc' = "solver"
                   /\ UNCHANGED << frame, last, failed_rows >>
              ELSE Raise
    /\ UNCHANGED << layout_vars, config_vars, setup_vars, inputs_cache, buffer_vars, failed_at,
                    good_inputs >>

\* A further evaluation of the dynamics function while the solver steps (any
\* number of them: a repetition leaves the state as it is).
SolverRhs ==
    /\ pc = "solver"
    /\ ~SpanDegenerate(frame.inputs.t_duration, nnps[frame.i + 1])
    /\ rhs' = [fn |-> IF frame.derivs THEN "_f_augmented" ELSE "_f_primal",
               t_duration |-> frame.inputs.t_duration,
               x_ndim |-> IF frame.derivs THEN 2 ELSE 1,
               seg |-> frame.i, segment_index |-> segment_index, first |-> FALSE]
    /\ UNCHANGED << layout_vars, config_vars, setup_vars, inputs_cache, buffer_vars, segment_index, pc,
                    frame, last, solve_log, t_spans, failed_at, failed_rows, good_inputs >>

\* solve_ivp returns or raises, and the rest of the loop body (lines 791-800).
SolverReturn ==
    /\ pc = "solver"
    /\ LET n   == nnps[frame.i + 1]
           deg == SpanDegenerate(frame.inputs.t_duration, n)
       IN  \E out \in SolverOutcomes(n, deg) :
             LET pts == SolPoints(frame.inputs, frame.derivs, frame.i, out.npts, deg, frame.y0)
             IN  /\ failed_at' = IF out.status = "success" THEN failed_at ELSE frame.i
                 /\ IF out.status = "raised"
                    THEN /\ Raise
                         /\ UNCHANGED buffer_vars
                    ELSE IF out.npts = 0
                    THEN /\ Raise
                         /\ UNCHANGED buffer_vars
                    ELSE IF ~Broadcasts(out.npts, n)
                    THEN /\ Raise
                         /\ UNCHANGED buffer_vars
                    ELSE /\ dx_dz_out' = IF frame.derivs /\ dx_dz_out # None
                                         THEN WriteRows(dx_dz_out, frame.row_seg_i, n,
                                                        Column(pts, "dx_dz"))
                                         ELSE dx_dz_out
                         /\ dt_dz_out' = IF frame.derivs /\ dt_dz_out # None
                                         THEN WriteRows(dt_dz_out, frame.row_seg_i, n,
                                                        Column(pts, "dt_dz"))
                                         ELSE dt_dz_out
                         /\ x_out' = WriteRows(x_out, frame.row_seg_i, n, Column(pts, "x"))
                         /\ t_out' = WriteRows(t_out, frame.row_seg_i, n,
                                                SolTimes(frame.inputs, frame.i, out.npts))
                         /\ x_flow' = WriteRows(x_flow, frame.row_seg_i, n,
                                                 SolFlows(frame.y0_flow, frame.i, out.npts))
                         /\ frame' = [frame EXCEPT !.y0 = NextY0(pts),
                                                   !.y0_flow = SolFlows(frame.y0_flow, frame.i,
                                                                        out.npts)[out.npts],
                                                   !.sol_end = pts[Len(pts)],
                                                   !.row_seg_i = NextRowSegI(@, n),
                                                   !.writes = [r \in DOMAIN @ |->
                                                       IF r \in (frame.row_seg_i + 1)
                                                                  ..(frame.row_seg_i + n)
                                                       THEN Append(@[r], frame.i) ELSE @[r]],
                                                   !.i = @ + 1]
                         /\ failed_rows' = failed_rows \ ((frame.row_seg_i + 1)..(frame.row_seg_i + n))
                         /\ pc' = "loop"
                         /\ UNCHANGED last
    /\ UNCHANGED << layout_vars, config_vars, setup_vars, inputs_cache, segment_index, solve_log, t_spans, rhs,
                    good_inputs >>

\* _propagate returns; the caller stores the fingerprint and builds its result.
PropagateReturn ==
    /\ pc = "loop"
    /\ ~LoopContinues(frame.i)
    /\ inputs_cache' = CacheAfterPropagate(get_hash(frame.inputs))
    /\ good_inputs' = frame.inputs
    /\ IF frame.op = "compute"
       THEN ComputeTail(frame.inputs, TRUE)
       ELSE ComputePartialsTail(frame.inputs, TRUE)
    /\ UNCHANGED << layout_vars, config_vars, setup_vars, buffer_vars, segment_index, solve_log, t_spans, rhs,
                    failed_at, failed_rows >>

Next ==
    \/ Setup
    \/ \E inputs \in Inputs : Compute(inputs)
    \/ \E inputs \in Inputs : ComputePartials(inputs)
    \/ SegmentBegin
    \/ SolverRhs
    \/ SolverReturn
    \/ PropagateReturn

Spec == Init /\ [][Next]_vars

(* ------------------- setup, one _configure_* at a time ----------------- *)
InitCatalogs ==
    /\ propagate_derivs = TRUE
    /\ is_aligned = TRUE
    /\ nnps = << 1 >>
    /\ is_setup = FALSE
    /\ eval_subprob = "None"
    /\ setup_raised = FALSE
    /\ inputs_cache = EmptyCache
    /\ x_out = None
    /\ t_out = None
    /\ dx_dz_out = None
    /\ dt_dz_out = None
    /\ x_flow = None
    /\ segment_index = -1
    /\ pc = "idle"
    /\ frame = NoFrame
    /\ last = NoCall
    /\ solve_log = << >>
    /\ t_spans = << >>
    /\ rhs = NoRhs
    /\ failed_at = -1
    /\ failed_rows = {}
    /\ good_inputs = NoInputs
    /\ catalog \in Catalogs
    /\ layout = Unconfigured
    /\ cfg_pc = "new"
    /\ aug = None
    /\ y0_aug = None
    /\ partials = None

\* setup() up to _setup_subprob (lines 452-457), on a new instance or on one
\* set up before.  aug, y0_aug and partials record what was evaluated on the
\* layout of the latest setup.
SetupBegin ==
    /\ cfg_pc \in {"new", "done"}
    /\ SetupRuns(catalog, layout) < MaxSetups
    /\ cfg_pc' = "head"
    /\ layout' = SetupHead(layout)
    /\ aug' = None
    /\ y0_aug' = None
    /\ partials' = None
    /\ UNCHANGED << engine_vars, catalog >>

\* self._setup_time()
SetupTime ==
    /\ cfg_pc = "head"
    /\ cfg_pc' = "time"
    /\ layout' = ConfigureTime(catalog, layout)
    /\ UNCHANGED << engine_vars, catalog, aug, y0_aug, partials >>

\* self._setup_parameters()
SetupParameters ==
    /\ cfg_pc = "time"
    /\ cfg_pc' = "parameters"
    /\ layout' = ConfigureParameters(catalog, layout)
    /\ UNCHANGED << engine_vars, catalog, aug, y0_aug, partials >>

\* self._setup_controls()
SetupControls ==
    /\ cfg_pc = "parameters"
    /\ cfg_pc' = "controls"
    /\ layout' = ConfigureControls(catalog, layout)
    /\ UNCHANGED << engine_vars, catalog, aug, y0_aug, partials >>

\* self._setup_polynomial_controls()
SetupPolynomialControls ==
    /\ cfg_pc = "controls"
    /\ cfg_pc' = "polynomial_controls"
    /\ layout' = ConfigurePolynomialControls(catalog, layout)
    /\ UNCHANGED << engine_vars, catalog, aug, y0_aug, partials >>

\* self._setup_states()
SetupStates ==
    /\ cfg_pc = "polynomial_controls"
    /\ cfg_pc' = "states"
    /\ layout' = ConfigureStates(catalog, layout)
    /\ UNCHANGED << engine_vars, catalog, aug, y0_aug, partials >>

\* self._setup_storage()
SetupStorage ==
    /\ cfg_pc = "states"
    /\ cfg_pc' = "done"
    /\ layout' = ConfigureStorage(catalog, layout)
    /\ UNCHANGED << engine_vars, catalog, aug, y0_aug, partials >>

\* One evaluation of the augmented dynamics function on the configured layout.
EvalFAugmented ==
    /\ cfg_pc = "done"
    /\ y0_aug # None
    /\ aug = None
    /\ \E td \in 0..1 :
          aug' = [t_duration |-> td,
                  y_dot |-> FAugmented(layout, AugmentedSize(layout), td, DthetaDz(layout))]
    /\ UNCHANGED << engine_vars, catalog, layout, cfg_pc, y0_aug, partials >>

\* The head of a _propagate with sensitivities: y0 is built anew from x0 and
\* the stored initial sensitivities, in the first call and in one that follows
\* a whole compute_partials.
BuildY0 ==
    /\ cfg_pc = "done"
    /\ IF y0_aug = None THEN TRUE ELSE y0_aug.runs = 1 /\ partials # None
    /\ y0_aug' = [runs |-> IF y0_aug = None THEN 1 ELSE 2,
                   y0 |-> AugmentedY0(catalog, layout)]
    /\ UNCHANGED << engine_vars, catalog, layout, cfg_pc, aug, partials >>

\* The tail of a compute_partials that returns (lines 855-883).
WritePartials ==
    /\ cfg_pc = "done"
    /\ aug # None
    /\ partials = None
    /\ partials' = [keys |-> PartialsWritten(catalog)]
    /\ UNCHANGED << engine_vars, catalog, layout, cfg_pc, aug, y0_aug >>

NextLayout ==
    \/ EvalFAugmented
    \/ BuildY0
    \/ WritePartials
    \/ SetupBegin
    \/ SetupTime
    \/ SetupParameters
    \/ SetupControls
    \/ SetupPolynomialControls
    \/ SetupStates
    \/ SetupStorage

SpecLayout == InitCatalogs /\ [][NextLayout]_vars

(* ------------------------------ claims --------------------------------- *)
Passes(call) == (IF call.pair = "miss" THEN 1 ELSE 0) + (IF call.propagated THEN 1 ELSE 0)

Returned(call) == call.status \in {"ok", "TypeError"}

\* C1: a compute_partials(I) that directly follows a compute(I) which returned
\* runs no _propagate of its own, so the two calls run at most one in total.
C1_OnePassForComputeThenPartials ==
    (last.op = "compute_partials" /\ last.pair # "none")
        => (~last.propagated /\ Passes(last) <= 1)

C1_Witness ==
    /\ last.op = "compute_partials"
    /\ last.pair = "miss"
    /\ last.status = "ok"
    /\ Passes(last) = 1

\* C2: the second of two consecutive compute calls with identical inputs does
\* not integrate (one integration for the pair when the first one integrated);
\* a compute whose inputs differ from those of the last propagation that
\* returned always starts a propagation, and when it returns the marker is
\* the fingerprint of the new inputs.
C2_CacheCorrectness ==
    /\ (last.op = "compute" /\ last.pair # "none") => ~last.propagated
    /\ (last.op = "compute" /\ last.pair = "miss") => Passes(last) = 1
    /\ (last.op = "compute" /\ last.changed)
          => /\ last.propagated
             /\ (last.status = "ok" => inputs_cache = get_hash(last.inputs))
    /\ (pc # "idle" /\ frame.op = "compute") => frame.inputs # good_inputs

C2_Witness ==
    /\ last.op = "compute"
    /\ last.status = "ok"
    /\ last.changed
    /\ good_inputs = last.inputs
    /\ \E r \in DOMAIN x_out : x_out[r].inputs \notin {last.inputs, NoInputs}

\* C3: the partials compute_partials returns for inputs I are rows of the
\* sensitivity buffers that a propagation of I with sensitivities filled,
\* whatever the option and whatever was called before.
C3_PartialsComeFromDerivPropagation ==
    (last.op = "compute_partials" /\ last.status # "raised")
        => /\ last.status = "ok"
           /\ \A r \in DOMAIN last.rows :
                 /\ last.rows[r].inputs = last.inputs
                 /\ last.rows[r].src \in {"sol", "dx_dz_0"}

\* C6: the vector handed to the solver for segment i+1 is the last point the
\* solver returned for segment i, which is also the last row segment i wrote;
\* the sensitivity blocks are carried, not reset.
C6_SegmentContinuity ==
    (pc \in {"loop", "solver"} /\ frame.i >= 1)
        => /\ frame.y0 = frame.sol_end
           /\ frame.y0.x = x_out[frame.row_seg_i]
           /\ (frame.derivs /\ dx_dz_out # None)
                 => /\ frame.y0.dx_dz = dx_dz_out[frame.row_seg_i]
                    /\ frame.y0.dt_dz = dt_dz_out[frame.row_seg_i]

C6_Witness ==
    /\ pc = "solver"
    /\ frame.i = 1
    /\ frame.derivs
    /\ frame.y0.dx_dz = Tok("sol", frame.inputs, 0, 2)
    /\ dx_dz_out # None

\* C7: a propagation hands the segments to the solver in the order 0, 1, ...,
\* one at a time, each once; when it returns every segment has been solved,
\* single-node segments included.
C7_SegmentsInOrder ==
    /\ Len(solve_log) <= Len(nnps)
    /\ \A k \in DOMAIN solve_log : solve_log[k] = k - 1
    /\ pc = "loop" => Len(solve_log) = frame.i
    /\ pc = "solver" => Len(solve_log) = frame.i + 1
    /\ (pc = "idle" /\ last.propagated /\ Returned(last)) => Len(solve_log) = Len(nnps)

C7_Witness ==
    /\ pc = "idle"
    /\ last.propagated
    /\ last.status = "ok"
    /\ nnps = << 3, 1 >>
    /\ solve_log = << 0, 1 >>

\* C8: once the solver has failed in a segment, the propagation goes no
\* further, the call raises and the marker is not the failing inputs'.
C8_SolverFailureIsFatal ==
    failed_at >= 0
        => /\ pc = "idle"
           /\ last.status = "raised"
           /\ inputs_cache # get_hash(last.inputs)

\* C9: no call that returns normally returns rows that a propagation that
\* raised has written.
C9_NoRowsOfFailedPropagation ==
    (pc = "idle" /\ last.status = "ok") => failed_rows = {}

\* C10: the augmented dynamics function is never evaluated with a zero
\* t_duration.
C10_ZeroDurationNeverReachesRhs ==
    rhs.fn = "_f_augmented" => rhs.t_duration # 0

\* C11: on grids that are not aligned, setup raises before the evaluator
\* sub-problem is built and before any layout or buffer exists, and no compute
\* or compute_partials ever runs on that instance.
C11_MisalignedSetupFailsFirst ==
    ~is_aligned
        => /\ ~is_setup
           /\ eval_subprob = "None"
           /\ layout = Unconfigured
           /\ x_out = None /\ t_out = None /\ dx_dz_out = None /\ dt_dz_out = None
           /\ pc = "idle" /\ last = NoCall /\ inputs_cache = EmptyCache

C11_Witness ==
    /\ ~is_aligned
    /\ setup_raised
    /\ x_out = None

\* The segment and the node of the segment that row r of the buffers is for.
RECURSIVE RowSeg(_, _)
RowSeg(r, i) == IF r <= nnps[i + 1] THEN i ELSE RowSeg(r - nnps[i + 1], i + 1)

RECURSIVE RowNode(_, _)
RowNode(r, i) == IF r <= nnps[i + 1] THEN r - 1 ELSE RowNode(r - nnps[i + 1], i + 1)

RowTime(inputs, r) == TEvalSeg(inputs, RowSeg(r, 0))[RowNode(r, 0) + 1]

\* What a run with one segment from t_initial holds at an output node at time t.
SingleSegmentValue(inputs, t) == Flow(inputs, 0, t)

FullRun ==
    /\ pc = "idle"
    /\ last.status = "ok"
    /\ last.propagated
    /\ failed_at = -1

\* C12: after a run over two equal segments in which every solve succeeded,
\* each row holds what a single-segment run holds at a node at the same time.
C12_TwoSegmentsMatchOne ==
    (FullRun /\ Len(nnps) = 2)
        => \A r \in 1..nn :
              last.flows[r] = SingleSegmentValue(last.inputs, RowTime(last.inputs, r))

\* C13: the spans handed to the solver are contiguous: the first starts at
\* t_initial, each next one starts where the one before ended, and when the
\* propagation has returned the last one ends at t_initial + t_duration.
C13_SpansContiguous ==
    /\ \A k \in DOMAIN t_spans :
          t_spans[k].lo = IF k = 1 THEN 0 ELSE t_spans[k - 1].hi
    /\ FullRun => t_spans[Len(nnps)].hi = last.inputs.t_duration * 2 * Len(nnps)

\* The rows segment i is to write: from the sum of the node counts before it.
RowsOfSegment(i) ==
    LET before == SumSeq(SubSeq(nnps, 1, i))
    IN  (before + 1)..(before + nnps[i + 1])

\* C17: while every solve so far has succeeded, the segments solved so far
\* have written exactly their own rows of every allocated buffer, each row
\* once, no other row has been written, and a written row of t_out holds the
\* time of the row's own output node.
C17_RowsWrittenOnceInPlace ==
    (pc = "loop" /\ failed_at = -1) =>
        \A r \in 1..nn :
            LET i == RowSeg(r, 0)
            IN  IF i < frame.i
                THEN /\ r \in RowsOfSegment(i)
                     /\ frame.writes[r] = << i >>
                     /\ t_out[r] = Tok("t", frame.inputs, i, r - 1 - SumSeq(SubSeq(nnps, 1, i)))
                     /\ x_out[r].inputs = frame.inputs
                     /\ x_flow[r].inputs = frame.inputs
                     /\ (frame.derivs /\ dx_dz_out # None)
                           => /\ dx_dz_out[r].inputs = frame.inputs
                              /\ dt_dz_out[r].inputs = frame.inputs
                ELSE frame.writes[r] = << >>

C17_Witness ==
    /\ pc = "loop"
    /\ failed_at = -1
    /\ frame.i = 2
    /\ nnps = << 3, 1 >>
    /\ frame.derivs
    /\ dx_dz_out # None
    /\ frame.inputs.t_duration = 1

\* C19: between calls, a marker that is not empty is the fingerprint of inputs
\* whose completed propagation the buffers hold: no row is still the zero of
\* an allocation by setup, so the first call after a setup integrates.
C19_MarkerMeansBuffersHoldResult ==
    (pc = "idle" /\ is_setup /\ inputs_cache # EmptyCache)
        => /\ inputs_cache = get_hash(good_inputs)
           /\ \A r \in 1..nn : x_out[r] # Zero /\ t_out[r] # Zero

\* C20: while the solver integrates segment i, and at every evaluation of a
\* dynamics function made for it, the evaluator's segment index is i.
C20_SegmentIndexIsCurrent ==
    /\ pc = "solver" => segment_index = frame.i
    /\ rhs.fn # "none" => rhs.segment_index = rhs.seg

C20_Witness ==
    /\ pc = "solver"
    /\ frame.i = 1
    /\ rhs.fn = "_f_augmented"
    /\ ~rhs.first
    /\ rhs.seg = 1
    /\ rhs.segment_index = 1

\* C16: every evaluation of a dynamics function hands the evaluator a
\* single-row, two-dimensional x, so that x[0, slice] is defined; a primal-only
\* propagation evaluates its rates without an error.
C16_EvaluatorGetsSingleRow ==
    rhs.fn # "none" => XRowIndexable(rhs.x_ndim)

(* --------------------------- layout claims ----------------------------- *)
Covered(slices) == UNION { Range(slices[k]) : k \in DOMAIN slices }

\* The slices are non-empty, pairwise disjoint, and together exactly 0..n-1.
Tiles(slices, n) ==
    /\ \A k \in DOMAIN slices : slices[k].start < slices[k].stop
    /\ \A j, k \in DOMAIN slices : j # k => Range(slices[j]) \cap Range(slices[k]) = {}
    /\ Covered(slices) = 0..(n - 1)

SliceSizes(slices) == [k \in DOMAIN slices |-> slices[k].stop - slices[k].start]

XSlices(lay) == lay.state_idxs

ThetaSlices(lay) ==
    << TInitialInTheta, TDurationInTheta >> \o lay.parameter_idxs_in_theta
    \o lay.control_idxs_in_theta \o lay.polynomial_control_idxs_in_theta

ZSlices(lay) ==
    lay.state_idxs_in_z \o << TInitialInZ(lay), TDurationInZ(lay) >> \o lay.parameter_idxs_in_z
    \o lay.control_idxs_in_z \o lay.polynomial_control_idxs_in_z

QuantitySizes(cat) == ParamSizes(cat) \o ControlSizes(cat) \o PolySizes(cat)

ZSliceOf(lay, wrt) ==
    CASE wrt.kind = "state"      -> lay.state_idxs_in_z[wrt.k]
      [] wrt.kind = "t_initial"  -> TInitialInZ(lay)
      [] wrt.kind = "t_duration" -> TDurationInZ(lay)
      [] wrt.kind = "param"      -> lay.parameter_idxs_in_z[wrt.k]
      [] wrt.kind = "control"    -> lay.control_idxs_in_z[wrt.k]
      [] wrt.kind = "poly"       -> lay.polynomial_control_idxs_in_z[wrt.k]

\* The places of the (output state, input) block in the row-major flattened
\* n_x by n_z matrix dx/dz.
BlockPositions(lay, of, wrt) ==
    { r * lay.z_size + c : r \in Range(lay.state_idxs[of]), c \in Range(ZSliceOf(lay, wrt)) }

\* C4: every (output state, input) entry of the dx/dz map is exactly the set
\* of places of that block in the flattened dx/dz, and the entries together
\* cover 0..n_x*n_z-1 without gap or overlap.
C4_DxDzMapMatchesBlocks ==
    cfg_pc = "done" =>
        LET m == layout.partial_dx_dz_idxs
        IN  /\ \A k \in DOMAIN m :
                  Range(m[k].cols) = BlockPositions(layout, m[k].of, m[k].wrt)
            /\ \A j, k \in DOMAIN m : j # k => Range(m[j].cols) \cap Range(m[k].cols) = {}
            /\ UNION { Range(m[k].cols) : k \in DOMAIN m }
                  = 0..(layout.x_size * layout.z_size - 1)

\* C5: the slices of the named quantities tile x, theta and z, each quantity
\* with a slice of its own size, n_theta = 2 + n_p + n_u + n_up and
\* n_z = n_x + n_theta.
C5_SlicesTileTheVectors ==
    cfg_pc = "done" =>
        /\ Tiles(XSlices(layout), layout.x_size)
        /\ Tiles(ThetaSlices(layout), layout.theta_size)
        /\ Tiles(ZSlices(layout), layout.z_size)
        /\ SliceSizes(XSlices(layout)) = StateSizes(catalog)
        /\ SliceSizes(ThetaSlices(layout)) = << 1, 1 >> \o QuantitySizes(catalog)
        /\ SliceSizes(ZSlices(layout)) = StateSizes(catalog) \o << 1, 1 >> \o QuantitySizes(catalog)
        /\ layout.theta_size = 2 + layout.p_size + layout.u_size + layout.up_size
        /\ layout.z_size = layout.x_size + layout.theta_size

C5_Witness ==
    /\ cfg_pc = "done"
    /\ catalog.states = << 1, 2 >>
    /\ catalog.params = << 2 >>
    /\ catalog.controls = << 1 >>
    /\ catalog.n_control_nodes = 2
    /\ catalog.polys = << [order |-> 1, size |-> 2] >>
    /\ layout.z_size = 13

\* The entries of y = [x, dx/dz, dt/dz] by block.
DxDzOfY(lay, k, c) == YAt(lay.x_size + k * lay.z_size + c)

DtDzOfY(lay, c) == YAt(lay.x_size + lay.x_size * lay.z_size + c)

\* dt/dz_dot: 1/t_duration at the t_duration column of z, nothing elsewhere.
ClaimedDtDzDot(lay, td, c) == IF c \in Range(TDurationInZ(lay)) THEN {OneOver(td)} ELSE {}

\* dx/dz_dot = f_x.(dx/dz) + f_t.(dt/dz) + f_theta.[0 | I] + x_dot.dt/dz_dot
ClaimedDxDzDot(lay, td, r, c) ==
    { Prod(Sym("f_x", r, k), DxDzOfY(lay, k, c)) : k \in 0..(lay.x_size - 1) }
    \cup { Prod(Sym("f_t", r, 0), DtDzOfY(lay, c)) }
    \cup (IF c >= lay.x_size THEN { Sym("f_theta", r, c - lay.x_size) } ELSE {})
    \cup { Prod(Sym("x_dot", r, 0), h) : h \in ClaimedDtDzDot(lay, td, c) }

C15_InitialAugmentedState ==
    y0_aug # None =>
        LET n_x == layout.x_size
            n_z == layout.z_size
            y0  == y0_aug.y0
        IN  /\ Len(y0) = n_x + n_x * n_z + n_z
            /\ \A k \in DOMAIN layout.state_idxs : \A r \in Range(layout.state_idxs[k]) :
                  /\ y0[r + 1] = Sym("states", k, r - layout.state_idxs[k].start)
                  /\ \A c \in 0..(n_z - 1) :
                        y0[n_x + r * n_z + c + 1] =
                            (IF /\ c \in Range(layout.state_idxs_in_z[k])
                                /\ c - layout.state_idxs_in_z[k].start
                                      = r - layout.state_idxs[k].start
                             THEN 1 ELSE 0)
            /\ \A c \in 0..(n_z - 1) :
                  y0[n_x + n_x * n_z + c + 1] = (IF c \in Range(TInitialInZ(layout)) THEN 1 ELSE 0)

C15_Witness ==
    /\ y0_aug # None
    /\ y0_aug.runs = 2
    /\ aug # None
    /\ catalog.states = << 2, 1 >>
    /\ catalog.controls = << 1 >>

KeyOf(d) == [of |-> d.of, wrt |-> d.wrt]

\* C18: a compute_partials that returns writes declared partials only; every
\* declared partial has a constant value or is written; what is written is
\* (time, t_duration), (time_phase, t_duration) and every state output with
\* respect to every input; nothing of t_final and not (time, t_initial).
C18_PartialsWrittenAreDeclared ==
    partials # None =>
        /\ partials.keys \subseteq { KeyOf(d) : d \in layout.declared }
        /\ \A d \in layout.declared : d.val = "const" \/ KeyOf(d) \in partials.keys
        /\ partials.keys =
              { [of |-> Name(of, 0), wrt |-> Name("t_duration", 0)] : of \in {"time", "time_phase"} }
              \cup { [of |-> Name("states_out", k), wrt |-> wrt] :
                       k \in DOMAIN catalog.states,
                       wrt \in QuantityInputs(catalog)
                                \cup { Name("t_initial", 0), Name("t_duration", 0) } }
        /\ \A key \in partials.keys : key.of # Name("t_final", 0)
        /\ [of |-> Name("time", 0), wrt |-> Name("t_initial", 0)] \notin partials.keys

C18_Witness ==
    /\ partials # None
    /\ catalog.states = << 1, 2 >>
    /\ catalog.params = << 1 >>
    /\ catalog.polys = << [order |-> 1, size |-> 1] >>
    /\ Cardinality(partials.keys) = 14

(* ----------------------- setup run more than once ----------------------- *)
NoDuplicates(seq) == \A i, j \in DOMAIN seq : seq[i] = seq[j] => i = j

Elements(seq) == { seq[i] : i \in DOMAIN seq }

\* The sizes and every slice map of a layout.
SizesAndSlices(lay) ==
    [f \in { "x_size", "p_size", "u_size", "up_size", "theta_size", "z_size",
             "state_idxs", "state_idxs_in_z",
             "parameter_idxs", "parameter_idxs_in_theta", "parameter_idxs_in_z",
             "control_idxs_in_theta", "control_idxs_in_z",
             "polynomial_control_idxs_in_theta", "polynomial_control_idxs_in_z",
             "partial_dx_dz_idxs" } |-> lay[f]]

StateRateNamesOnce ==
    /\ NoDuplicates(layout.state_rate_of_names)
    /\ Elements(layout.state_rate_of_names) = Elements(NamesOf("state_rates", catalog.states))

TotalsWrtNamesOnce ==
    /\ NoDuplicates(layout.totals_wrt_names)
    /\ Elements(layout.totals_wrt_names) =
          { Name("time", 0), Name("t_initial", 0), Name("t_duration", 0) }
          \cup QuantityInputs(catalog)

LayoutAsAfterOneSetup ==
    SizesAndSlices(layout) = SizesAndSlices(ConfigureAll(catalog, Unconfigured))

\* C21: after any number of setup runs on one instance, the list of state-rate
\* output names and the list of input names asked of compute_totals each hold
\* every name exactly once, and the sizes n_x, n_p, n_u, n_up, n_theta, n_z and
\* all slices are those after a single setup.
C21_SetupIdempotent ==
    cfg_pc = "done" =>
        /\ StateRateNamesOnce
        /\ TotalsWrtNamesOnce
        /\ LayoutAsAfterOneSetup

====
